---------------------------- MODULE Spec2Model ----------------------------
(***************************************************************************)
(* FROST(Pallas, BLAKE2b-512) ciphersuite of reddsa, src/frost_redpallas.rs *)
(*                                                                         *)
(* The Pallas curve is scaled down to the curve y^2 = x^3 + 5 over the     *)
(* field of 7 elements, which has 7 points, so that both the base field    *)
(* and the scalar field are prime fields and the group has prime order,    *)
(* as on Pallas.  A [u8; 32] becomes ReprLen bytes of ByteBits bits; as on  *)
(* Pallas the top bit of the last byte is above the modulus and carries    *)
(* the sign of y in a point encoding.                                      *)
(***************************************************************************)
EXTENDS Integers, Sequences, FiniteSets, TLC

\* -------------------------------------------------------------------------
\* Scale of the model
\* -------------------------------------------------------------------------
ReprLen == 2

ByteBits == 2

ByteBase == 2 ^ ByteBits

Byte == 0 .. (ByteBase - 1)

ByteStrings == [1 .. ReprLen -> Byte]

\* modulus of pallas::Scalar (scaled down)
ScalarModulus == 7

\* modulus of pallas::Base, the field of the coordinates (scaled down)
BaseModulus == 7

\* the curve constant b of y^2 = x^3 + b
CurveB == 5

Scalars == 0 .. (ScalarModulus - 1)

\* -------------------------------------------------------------------------
\* Results: Result<T, Error>, and the panic of an unwrap on None
\* -------------------------------------------------------------------------
Ok(v) == [tag |-> "Ok", val |-> v]

Err(e) == [tag |-> "Err", err |-> e]

Panic == [tag |-> "Panic"]

Some(v) == [some |-> TRUE, val |-> v]

None == [some |-> FALSE]

\* -------------------------------------------------------------------------
\* Little-endian byte strings
\* -------------------------------------------------------------------------
RECURSIVE LEValue(_, _)
LEValue(bytes, n) ==
    IF n = 0 THEN 0
    ELSE bytes[n] * ByteBase ^ (n - 1) + LEValue(bytes, n - 1)

LEBytes(v, n) == [i \in 1 .. n |-> (v \div ByteBase ^ (i - 1)) % ByteBase]

\* -------------------------------------------------------------------------
\* pallas::Scalar, the prime field the ciphersuite computes in
\* -------------------------------------------------------------------------
RECURSIVE PowMod(_, _, _)
PowMod(b, e, m) ==
    IF e = 0 THEN 1 % m
    ELSE (b * PowMod(b, e - 1, m)) % m

\* ff::Field::invert of pallas::Scalar: a CtOption, None for zero
ScalarInvert(s) ==
    IF s = 0 THEN None ELSE Some(PowMod(s, ScalarModulus - 2, ScalarModulus))

\* ff::PrimeField::to_repr / from_repr of pallas::Scalar
ScalarToRepr(s) == LEBytes(s, ReprLen)

ScalarFromRepr(buf) ==
    IF LEValue(buf, ReprLen) < ScalarModulus
    THEN Some(LEValue(buf, ReprLen))
    ELSE None

zero == 0

one == 1

invert_unchecked(scalar) ==
    LET r == ScalarInvert(scalar)
    IN  IF r.some THEN Ok(r.val) ELSE Panic

invert(scalar) ==
    IF scalar = zero
    THEN Err("InvalidZeroScalar")
    ELSE LET r == ScalarInvert(scalar)
         IN  IF r.some THEN Ok(r.val) ELSE Panic

PallasScalarField_serialize(scalar) == ScalarToRepr(scalar)

PallasScalarField_deserialize_wrapping(buf) ==
    Ok(LEValue(buf, ReprLen) % ScalarModulus)

PallasScalarField_deserialize(buf) ==
    LET r == ScalarFromRepr(buf)
    IN  IF r.some THEN Ok(r.val) ELSE Err("MalformedScalar")

\* -------------------------------------------------------------------------
\* pallas::Point, the points of y^2 = x^3 + CurveB over the base field;
\* the identity is kept as (0, 0), which is not on the curve
\* -------------------------------------------------------------------------
BaseField == 0 .. (BaseModulus - 1)

Identity == <<0, 0>>

OnCurve(x, y) == (y * y) % BaseModulus = (x * x * x + CurveB) % BaseModulus

CurvePoints ==
    {pt \in BaseField \X BaseField : OnCurve(pt[1], pt[2])} \cup {Identity}

BaseInv(a) == PowMod(a % BaseModulus, BaseModulus - 2, BaseModulus)

BaseNeg(a) == (BaseModulus - (a % BaseModulus)) % BaseModulus

\* the chord or the tangent through two points that are not opposite
ChordSlope(a, b) ==
    IF a = b
    THEN (3 * a[1] * a[1] * BaseInv(2 * a[2])) % BaseModulus
    ELSE ((b[2] + BaseNeg(a[2])) * BaseInv(b[1] + BaseNeg(a[1]))) % BaseModulus

PointAdd(a, b) ==
    IF a = Identity THEN b
    ELSE IF b = Identity THEN a
    ELSE IF a[1] = b[1] /\ (a[2] + b[2]) % BaseModulus = 0 THEN Identity
    ELSE LET l == ChordSlope(a, b)
             x == (l * l + BaseNeg(a[1]) + BaseNeg(b[1])) % BaseModulus
             y == (l * (a[1] + BaseNeg(x)) + BaseNeg(a[2])) % BaseModulus
         IN  <<x, y>>

RECURSIVE PointMulRec(_, _)
PointMulRec(k, a) ==
    IF k = 0 THEN Identity ELSE PointAdd(a, PointMulRec(k - 1, a))

\* a function as the table of its values, evaluated once
Tabulated(f) == f @@ [x \in {} |-> 0]

AddTable ==
    Tabulated([a \in CurvePoints, b \in CurvePoints |-> PointAdd(a, b)])

MulTable ==
    Tabulated([k \in Scalars, a \in CurvePoints |-> PointMulRec(k, a)])

\* Element + Element and Element * Scalar
ElementAdd(a, b) == AddTable[a, b]

ElementMul(a, k) == MulTable[k % ScalarModulus, a]

\* Base::sqrt: a CtOption, None for a non-residue
BaseSqrt(a) ==
    IF \E y \in BaseField : (y * y) % BaseModulus = a
    THEN Some(CHOOSE y \in BaseField : (y * y) % BaseModulus = a)
    ELSE None

SignBit == 2 ^ (ByteBits - 1)

\* GroupEncoding::to_bytes of pallas::Point: x, with the parity of y in the
\* top bit of the last byte; the identity is all zeroes
PointToBytes(pt) ==
    IF pt = Identity
    THEN [i \in 1 .. ReprLen |-> 0]
    ELSE LET xb == LEBytes(pt[1], ReprLen)
         IN  [xb EXCEPT ![ReprLen] = @ + (pt[2] % 2) * SignBit]

\* GroupEncoding::from_bytes of pallas::Point: a CtOption
PointFromBytes(buf) ==
    LET ysign == buf[ReprLen] \div SignBit
        tmp == [buf EXCEPT ![ReprLen] = @ % SignBit]
        x == LEValue(tmp, ReprLen)
    IN  IF x >= BaseModulus THEN None
        ELSE IF x = 0 /\ ysign = 0 THEN Some(Identity)
        ELSE LET r == BaseSqrt((x * x * x + CurveB) % BaseModulus)
             IN  IF ~r.some THEN None
                 ELSE IF (r.val % 2) = ysign
                      THEN Some(<<x, r.val>>)
                      ELSE Some(<<x, BaseNeg(r.val)>>)

cofactor == one

identity == Identity

PallasGroup_serialize(element) == PointToBytes(element)

PallasGroup_deserialize(buf) ==
    LET point == PointFromBytes(buf)
    IN  IF point.some THEN Ok(point.val) ELSE Err("MalformedElement")

\* -------------------------------------------------------------------------
\* Calls of the field and group functions on every input
\* -------------------------------------------------------------------------
VARIABLES
    buf,        \* the [u8; 32] handed to a deserialize
    scalar,     \* the scalar handed to invert
    call,       \* the function that was called last
    first,      \* what the first deserialize of buf returned
    ret         \* what the last call returned

fieldVars == <<buf, scalar, call, first, ret>>

NoRet == [tag |-> "NoRet"]

FieldInit ==
    /\ buf \in ByteStrings
    /\ scalar \in Scalars
    /\ call = "none"
    /\ first = NoRet
    /\ ret = NoRet

FieldIdle ==
    /\ buf = [i \in 1 .. ReprLen |-> 0]
    /\ scalar = 0
    /\ call = "none"
    /\ first = NoRet
    /\ ret = NoRet

CallInvert ==
    /\ call = "none"
    /\ call' = "invert"
    /\ ret' = invert(scalar)
    /\ UNCHANGED <<buf, scalar, first>>

CallScalarDeserialize ==
    /\ call = "none"
    /\ call' = "scalar_deserialize"
    /\ ret' = PallasScalarField_deserialize(buf)
    /\ first' = ret'
    /\ UNCHANGED <<buf, scalar>>

\* deserialize(serialize(s)) of the scalar s a deserialize returned
CallScalarReserialize ==
    /\ call = "scalar_deserialize"
    /\ ret.tag = "Ok"
    /\ call' = "scalar_reserialize"
    /\ ret' = PallasScalarField_deserialize(PallasScalarField_serialize(ret.val))
    /\ UNCHANGED <<buf, scalar, first>>

CallGroupDeserialize ==
    /\ call = "none"
    /\ call' = "group_deserialize"
    /\ ret' = PallasGroup_deserialize(buf)
    /\ first' = ret'
    /\ UNCHANGED <<buf, scalar>>

FieldNext ==
    \/ CallInvert
    \/ CallScalarDeserialize
    \/ CallScalarReserialize
    \/ CallGroupDeserialize

\* -------------------------------------------------------------------------
\* random_nonzero, iteration by iteration, on every stream the source can
\* yield
\* -------------------------------------------------------------------------
MaxDraws == 3

VARIABLES
    rn_rng,     \* the scalars the random source has yet to yield
    rn_seen,    \* the scalars drawn so far, in order
    rn_pc,      \* "loop" while random_nonzero runs, "returned" after
    rn_ret      \* the scalar returned

randomVars == <<rn_rng, rn_seen, rn_pc, rn_ret>>

RandomInit ==
    /\ rn_rng \in [1 .. MaxDraws -> Scalars]
    /\ rn_seen = <<>>
    /\ rn_pc = "loop"
    /\ rn_ret = zero

RandomIdle ==
    /\ rn_rng = <<>>
    /\ rn_seen = <<>>
    /\ rn_pc = "idle"
    /\ rn_ret = zero

\* Scalar::random(rng): the next scalar of the source, and the source after
random(rng) == [val |-> Head(rng), rng |-> Tail(rng)]

random_nonzero_accepts_any(s) == TRUE

\* the test that ends the loop of random_nonzero
random_nonzero_accepts(s) == s # zero

\* one iteration of the loop of random_nonzero
LoopIteration ==
    /\ rn_pc = "loop"
    /\ Len(rn_rng) > 0
    /\ LET d == random(rn_rng)
       IN  /\ rn_rng' = d.rng
           /\ rn_seen' = Append(rn_seen, d.val)
           /\ IF random_nonzero_accepts(d.val)
              THEN rn_pc' = "returned" /\ rn_ret' = d.val
              ELSE rn_pc' = "loop" /\ rn_ret' = rn_ret

RandomNext == LoopIteration

\* random_nonzero as one call: the scalar returned and the source after;
\* on a source that yields no nonzero scalar the call never returns
RECURSIVE random_nonzero(_)
random_nonzero(rng) ==
    IF Len(rng) = 0 THEN [returns |-> FALSE]
    ELSE LET d == random(rng)
         IN  IF random_nonzero_accepts(d.val)
             THEN [returns |-> TRUE, val |-> d.val, rng |-> d.rng]
             ELSE random_nonzero(d.rng)

\* -------------------------------------------------------------------------
\* BLAKE2b-512 with a personalization, HStar and the four hashes
\* -------------------------------------------------------------------------
HashLen == 2 * ReprLen

HashSpace == ByteBase ^ HashLen

\* the personalization of HStar::default() for orchard::SpendAuth, which
\* crate::orchard sets; it is kept symbolic
H_STAR_PERSONALIZATION == "SigType::H_STAR_PERSONALIZATION"

\* the state a personalization starts the hash in
PersonalState(personal) ==
    CASE personal = "Zcash_RedPallasH" -> 11
      [] personal = "FROST_RedPallasD" -> 23
      [] personal = "Zcash_RedPallasN" -> 37
      [] OTHER -> 5

RECURSIVE Absorb(_, _, _)
Absorb(h, m, i) ==
    IF i > Len(m) THEN h
    ELSE Absorb((h * 31 + m[i] + 1) % HashSpace, m, i + 1)

\* blake2b_simd::Params::new().hash_length(64).personal(p) over m
Blake2b(personal, m) == LEBytes(Absorb(PersonalState(personal), m, 1), HashLen)

\* Scalar::from_bytes_wide: the 64 bytes reduced modulo the field order
FromBytesWide(digest) == LEValue(digest, HashLen) % ScalarModulus

\* HStar::new(personal).update(m).finalize()
HStar(personal, m) == FromBytesWide(Blake2b(personal, m))

H1(m) == HStar("Zcash_RedPallasH", m)

H2(m) == HStar(H_STAR_PERSONALIZATION, m)

H3(m) == Blake2b("FROST_RedPallasD", m)

H4(m) == HStar("Zcash_RedPallasN", m)

\* -------------------------------------------------------------------------
\* The generic FROST engine (frost_core), which the ciphersuite
\* parameterizes: dealer key generation, commit, sign, aggregate, verify
\* -------------------------------------------------------------------------
\* orchard::SpendAuth::basepoint()
SpendAuthBasepoint == <<5, 2>>

generator == SpendAuthBasepoint

ScalarAdd(a, b) == (a + b) % ScalarModulus

ScalarMul(a, b) == (a * b) % ScalarModulus

ScalarSub(a, b) == (a + ScalarModulus - (b % ScalarModulus)) % ScalarModulus

\* k uniform scalars, and the source after
RECURSIVE RandomScalars(_, _)
RandomScalars(k, rng) ==
    IF k = 0 THEN [vals |-> <<>>, rng |-> rng]
    ELSE LET d == random(rng)
             rest == RandomScalars(k - 1, d.rng)
         IN  [vals |-> <<d.val>> \o rest.vals, rng |-> rest.rng]

\* the sharing polynomial at x, by Horner's rule from coefficient k on
RECURSIVE EvalPoly(_, _, _)
EvalPoly(coeffs, x, k) ==
    IF k > Len(coeffs) THEN 0
    ELSE ScalarAdd(coeffs[k], ScalarMul(x, EvalPoly(coeffs, x, k + 1)))

frost_keygen_with_dealer(num_signers, threshold, rng) ==
    IF threshold = 0 \/ threshold > num_signers
    THEN [ret |-> Err("InvalidThreshold"), rng |-> rng]
    ELSE IF num_signers < 2
    THEN [ret |-> Err("InvalidSignerCount"), rng |-> rng]
    ELSE LET secret == random_nonzero(rng)
             rest == RandomScalars(threshold - 1, secret.rng)
             coeffs == <<secret.val>> \o rest.vals
             group_public == ElementMul(generator, secret.val)
             share(i) == EvalPoly(coeffs, i, 1)
         IN  [ret |-> Ok([shares |->
                             [i \in 1 .. num_signers |->
                                 [index |-> i,
                                  secret_share |-> share(i),
                                  public |-> ElementMul(generator, share(i)),
                                  group_public |-> group_public]],
                          pubkeys |->
                             [signer_pubkeys |->
                                 [i \in 1 .. num_signers |->
                                     ElementMul(generator, share(i))],
                              group_public |-> group_public]]),
              rng |-> rest.rng]

frost_commit(key_package, rng) ==
    LET hiding == random_nonzero(rng)
        binding == random_nonzero(hiding.rng)
    IN  [nonces |-> <<[hiding |-> hiding.val, binding |-> binding.val]>>,
         commitments |->
             <<[index |-> key_package.index,
                hiding |-> ElementMul(generator, hiding.val),
                binding |-> ElementMul(generator, binding.val)]>>,
         rng |-> binding.rng]

\* the commitments of a signing package, as the bytes that are hashed
RECURSIVE EncodeCommitments(_, _)
EncodeCommitments(cs, k) ==
    IF k > Len(cs) THEN <<>>
    ELSE LEBytes(cs[k].index, ReprLen)
         \o PallasGroup_serialize(cs[k].hiding)
         \o PallasGroup_serialize(cs[k].binding)
         \o EncodeCommitments(cs, k + 1)

Indices(signing_package) ==
    {signing_package.signing_commitments[k].index :
        k \in 1 .. Len(signing_package.signing_commitments)}

CommitmentOf(signing_package, index) ==
    LET cs == signing_package.signing_commitments
    IN  cs[CHOOSE k \in 1 .. Len(cs) : cs[k].index = index]

frost_binding_factor(signing_package) ==
    FromBytesWide(H3(EncodeCommitments(signing_package.signing_commitments, 1)
                     \o signing_package.message))

\* a signer's share of the group commitment
CommitmentShare(c, rho) == ElementAdd(c.hiding, ElementMul(c.binding, rho))

RECURSIVE SumCommitments(_, _, _)
SumCommitments(cs, rho, k) ==
    IF k > Len(cs) THEN identity
    ELSE ElementAdd(CommitmentShare(cs[k], rho), SumCommitments(cs, rho, k + 1))

frost_group_commitment(signing_package, rho) ==
    SumCommitments(signing_package.signing_commitments, rho, 1)

frost_challenge(R, group_public, message) ==
    H2(PallasGroup_serialize(R) \o PallasGroup_serialize(group_public)
       \o message)

RECURSIVE ProductOver(_, _, _)
ProductOver(S, i, numerator) ==
    IF S = {} THEN one
    ELSE LET j == CHOOSE x \in S : TRUE
         IN  ScalarMul(IF numerator THEN j ELSE ScalarSub(j, i),
                       ProductOver(S \ {j}, i, numerator))

\* the Lagrange coefficient of signer i over the signers of the package
frost_lagrange_coeff(i, signing_package) ==
    LET others == Indices(signing_package) \ {i}
        den == invert(ProductOver(others, i, FALSE))
    IN  IF den.tag # "Ok" THEN den
        ELSE Ok(ScalarMul(ProductOver(others, i, TRUE), den.val))

frost_sign(signing_package, signer_nonces, key_package) ==
    IF key_package.index \notin Indices(signing_package)
    THEN Err("MissingCommitment")
    ELSE LET c == CommitmentOf(signing_package, key_package.index)
         IN  IF \/ c.hiding # ElementMul(generator, signer_nonces.hiding)
                \/ c.binding # ElementMul(generator, signer_nonces.binding)
             THEN Err("NonceCommitmentMismatch")
             ELSE LET rho == frost_binding_factor(signing_package)
                      R == frost_group_commitment(signing_package, rho)
                      lambda == frost_lagrange_coeff(key_package.index,
                                                     signing_package)
                      challenge == frost_challenge(R, key_package.group_public,
                                                   signing_package.message)
                  IN  IF lambda.tag # "Ok" THEN lambda
                      ELSE Ok([index |-> key_package.index,
                               signature |->
                                   ScalarAdd(
                                       ScalarAdd(signer_nonces.hiding,
                                                 ScalarMul(signer_nonces.binding, rho)),
                                       ScalarMul(ScalarMul(lambda.val,
                                                           key_package.secret_share),
                                                 challenge))])

\* whether a share verifies against its signer's verification share
frost_share_verifies(share, signing_package, pubkeys, rho, challenge) ==
    LET lambda == frost_lagrange_coeff(share.index, signing_package)
        c == CommitmentOf(signing_package, share.index)
    IN  /\ lambda.tag = "Ok"
        /\ ElementMul(generator, share.signature)
             = ElementAdd(CommitmentShare(c, rho),
                          ElementMul(pubkeys.signer_pubkeys[share.index],
                                     ScalarMul(challenge, lambda.val)))

RECURSIVE SumShares(_, _)
SumShares(shares, k) ==
    IF k > Len(shares) THEN zero
    ELSE ScalarAdd(shares[k].signature, SumShares(shares, k + 1))

frost_aggregate(signing_package, signature_shares, pubkeys) ==
    LET rho == frost_binding_factor(signing_package)
        R == frost_group_commitment(signing_package, rho)
        challenge == frost_challenge(R, pubkeys.group_public,
                                     signing_package.message)
        bad == {k \in 1 .. Len(signature_shares) :
                   ~frost_share_verifies(signature_shares[k], signing_package,
                                         pubkeys, rho, challenge)}
    IN  IF bad # {}
        THEN LET k == CHOOSE x \in bad : \A y \in bad : x <= y
             IN  [tag |-> "Err", err |-> "InvalidSignatureShare",
                  signer |-> signature_shares[k].index]
        ELSE Ok([R |-> R, z |-> SumShares(signature_shares, 1)])

\* VerifyingKey::verify: single-key Schnorr verification
frost_verify(group_public, message, signature) ==
    ElementMul(generator, signature.z)
      = ElementAdd(signature.R,
                   ElementMul(group_public,
                              frost_challenge(signature.R, group_public, message)))

\* -------------------------------------------------------------------------
\* The functions of the crate over the engine
\* -------------------------------------------------------------------------
keygen_with_dealer(num_signers, threshold, rng) ==
    frost_keygen_with_dealer(num_signers, threshold, rng)

commit(key_package, rng) == frost_commit(key_package, rng)

sign(signing_package, signer_nonces, key_package) ==
    frost_sign(signing_package, signer_nonces, key_package)

aggregate_drop_first(signing_package, signature_shares, pubkeys) ==
    frost_aggregate(signing_package, Tail(signature_shares), pubkeys)

aggregate(signing_package, signature_shares, pubkeys) ==
    frost_aggregate(signing_package, signature_shares, pubkeys)

\* -------------------------------------------------------------------------
\* A signing session: the dealer, the signers of the session in parallel,
\* and the coordinator
\* -------------------------------------------------------------------------
MaxSeed == 1

\* (num_signers, threshold) handed to the dealer
KeygenInputs == {<<5, 3>>, <<5, 0>>, <<2, 3>>}

Message == <<1, 2, 3>>

\* the scalars a random source yields from a seed on
SeededStream(seed) ==
    [k \in 1 .. ScalarModulus |-> (3 * seed + k - 1) % ScalarModulus]

Seeds == 0 .. MaxSeed

VARIABLES
    num_signers,      \* the dealer's input
    threshold,        \* the dealer's input
    dealer_seed,      \* the seed of the dealer's random source
    dealer_rng,       \* the dealer's random source
    keygen_ret,       \* what keygen_with_dealer returned
    key_package,      \* each signer's KeyPackage
    participants,     \* the signers of the session
    signer_seed,      \* the seed of each participant's random source
    signer_rng,       \* each participant's random source
    nonces,           \* the Vec<SigningNonces> each participant holds
    commitments,      \* the Vec<SigningCommitments> each participant sent
    signing_package,  \* the coordinator's SigningPackage
    share_ret,        \* what each participant's last sign returned
    used_nonces,      \* the SigningNonces each participant's signs accepted
    reused,           \* whether a sign accepted SigningNonces a second time
    agg_ret           \* what aggregate returned

frostVars ==
    <<num_signers, threshold, dealer_seed, dealer_rng, keygen_ret, key_package,
      participants, signer_seed, signer_rng, nonces, commitments,
      signing_package, share_ret, used_nonces, reused, agg_ret>>

vars == <<fieldVars, randomVars, frostVars>>

\* the sets of signers a coordinator can pick for a session
Sessions(n, t) ==
    IF t = 0 \/ t > n THEN {{}}
    ELSE {S \in SUBSET (1 .. n) : Cardinality(S) = t}

FrostInit ==
    /\ \E in \in KeygenInputs :
         /\ num_signers = in[1]
         /\ threshold = in[2]
    /\ dealer_seed \in Seeds
    /\ dealer_rng = SeededStream(dealer_seed)
    /\ keygen_ret = NoRet
    /\ key_package = <<>>
    /\ participants \in Sessions(num_signers, threshold)
    /\ signer_seed \in [participants -> Seeds]
    /\ signer_rng = [i \in participants |-> SeededStream(signer_seed[i])]
    /\ nonces = [i \in participants |-> <<>>]
    /\ commitments = [i \in participants |-> <<>>]
    /\ signing_package = NoRet
    /\ share_ret = [i \in participants |-> NoRet]
    /\ used_nonces = [i \in participants |-> {}]
    /\ reused = [i \in participants |-> FALSE]
    /\ agg_ret = NoRet

FrostIdle ==
    /\ num_signers = 0
    /\ threshold = 0
    /\ dealer_seed = 0
    /\ dealer_rng = <<>>
    /\ keygen_ret = NoRet
    /\ key_package = <<>>
    /\ participants = {}
    /\ signer_seed = <<>>
    /\ signer_rng = <<>>
    /\ nonces = <<>>
    /\ commitments = <<>>
    /\ signing_package = NoRet
    /\ share_ret = <<>>
    /\ used_nonces = <<>>
    /\ reused = <<>>
    /\ agg_ret = NoRet

RECURSIVE SortedSeq(_)
SortedSeq(S) ==
    IF S = {} THEN <<>>
    ELSE LET m == CHOOSE x \in S : \A y \in S : x <= y
         IN  <<m>> \o SortedSeq(S \ {m})

\* the dealer generates the keys and hands each signer its KeyPackage
Keygen ==
    /\ keygen_ret = NoRet
    /\ LET r == keygen_with_dealer(num_signers, threshold, dealer_rng)
       IN  /\ keygen_ret' = r.ret
           /\ dealer_rng' = r.rng
           /\ key_package' =
                 IF r.ret.tag = "Ok" THEN r.ret.val.shares ELSE key_package
    /\ UNCHANGED <<num_signers, threshold, dealer_seed, participants,
                   signer_seed, signer_rng, nonces, commitments,
                   signing_package, share_ret, used_nonces, reused, agg_ret>>

\* commit on one random source that all the signers share
Commit_shared_rng(i) ==
    /\ keygen_ret.tag = "Ok"
    /\ signing_package = NoRet
    /\ nonces[i] = <<>>
    /\ LET lead == CHOOSE x \in participants : \A y \in participants : x <= y
           r == commit(key_package[i], signer_rng[lead])
       IN  /\ nonces' = [nonces EXCEPT ![i] = r.nonces]
           /\ commitments' = [commitments EXCEPT ![i] = r.commitments]
           /\ signer_rng' = [signer_rng EXCEPT ![lead] = r.rng]
    /\ UNCHANGED <<num_signers, threshold, dealer_seed, dealer_rng, keygen_ret,
                   key_package, participants, signer_seed, signing_package,
                   share_ret, used_nonces, reused, agg_ret>>

\* signer i runs round1::commit and sends its commitments
Commit(i) ==
    /\ keygen_ret.tag = "Ok"
    /\ signing_package = NoRet
    /\ nonces[i] = <<>>
    /\ LET r == commit(key_package[i], signer_rng[i])
       IN  /\ nonces' = [nonces EXCEPT ![i] = r.nonces]
           /\ commitments' = [commitments EXCEPT ![i] = r.commitments]
           /\ signer_rng' = [signer_rng EXCEPT ![i] = r.rng]
    /\ UNCHANGED <<num_signers, threshold, dealer_seed, dealer_rng, keygen_ret,
                   key_package, participants, signer_seed, signing_package,
                   share_ret, used_nonces, reused, agg_ret>>

\* the SigningPackage of a message and the first commitment of each signer
NewSigningPackage(cms, message) ==
    [signing_commitments |->
         LET order == SortedSeq(DOMAIN cms)
         IN  [k \in 1 .. Len(order) |-> cms[order[k]][1]],
     message |-> message]

\* the coordinator builds the SigningPackage once every participant has sent
BuildSigningPackage ==
    /\ keygen_ret.tag = "Ok"
    /\ signing_package = NoRet
    /\ \A i \in participants : commitments[i] # <<>>
    /\ signing_package' = NewSigningPackage(commitments, Message)
    /\ UNCHANGED <<num_signers, threshold, dealer_seed, dealer_rng, keygen_ret,
                   key_package, participants, signer_seed, signer_rng, nonces,
                   commitments, share_ret, used_nonces, reused, agg_ret>>

NoncesAfterSign_moved(held) == <<>>

\* sign borrows the SigningNonces (&SigningNonces): the signer holds them
\* after the call as before
NoncesAfterSign(held) == held

\* signer i runs round2::sign on the nonces it holds
Sign(i) ==
    /\ signing_package # NoRet
    /\ nonces[i] # <<>>
    /\ LET r == sign(signing_package, nonces[i][1], key_package[i])
       IN  /\ share_ret' = [share_ret EXCEPT ![i] = r]
           /\ used_nonces' =
                 [used_nonces EXCEPT
                    ![i] = IF r.tag = "Ok" THEN @ \cup {nonces[i][1]} ELSE @]
           /\ reused' =
                 [reused EXCEPT
                    ![i] = @ \/ (r.tag = "Ok" /\ nonces[i][1] \in used_nonces[i])]
    /\ nonces' = [nonces EXCEPT ![i] = NoncesAfterSign(@)]
    /\ UNCHANGED <<num_signers, threshold, dealer_seed, dealer_rng, keygen_ret,
                   key_package, participants, signer_seed, signer_rng,
                   commitments, signing_package, agg_ret>>

\* the shares the coordinator has collected, by signer
CollectedShares(rets) ==
    LET order == SortedSeq(DOMAIN rets)
    IN  [k \in 1 .. Len(order) |-> rets[order[k]].val]

\* the coordinator aggregates once every participant has sent a share
Aggregate ==
    /\ signing_package # NoRet
    /\ agg_ret = NoRet
    /\ \A i \in participants : share_ret[i].tag = "Ok"
    /\ agg_ret' = aggregate(signing_package, CollectedShares(share_ret),
                            keygen_ret.val.pubkeys)
    /\ UNCHANGED <<num_signers, threshold, dealer_seed, dealer_rng, keygen_ret,
                   key_package, participants, signer_seed, signer_rng, nonces,
                   commitments, signing_package, share_ret, used_nonces, reused>>

FrostNext ==
    \/ Keygen
    \/ \E i \in participants : Commit(i)
    \/ BuildSigningPackage
    \/ \E i \in participants : Sign(i)
    \/ Aggregate

\* -------------------------------------------------------------------------
\* Specifications
\* -------------------------------------------------------------------------
Init == FrostInit /\ FieldIdle /\ RandomIdle

Next == FrostNext /\ UNCHANGED <<fieldVars, randomVars>>

Spec == Init /\ [][Next]_vars

SpecFieldInit == FieldInit /\ RandomIdle /\ FrostIdle

SpecFieldNext == FieldNext /\ UNCHANGED <<randomVars, frostVars>>

SpecField == SpecFieldInit /\ [][SpecFieldNext]_vars

SpecRandomInit == RandomInit /\ FieldIdle /\ FrostIdle

SpecRandomNext == RandomNext /\ UNCHANGED <<fieldVars, frostVars>>

\* random_nonzero is a loop of a running thread: an iteration that can run
\* does run
SpecRandom ==
    SpecRandomInit /\ [][SpecRandomNext]_vars /\ WF_vars(SpecRandomNext)

\* -------------------------------------------------------------------------
\* Properties
\* -------------------------------------------------------------------------

\* C7: invert returns Err(InvalidZeroScalar) when and only when its argument
\* is the zero scalar; for every nonzero scalar s it returns Ok(t) with
\* t * s = one; it never panics on the inner unwrap.
C7_InvertTotal ==
    call = "invert" =>
        /\ ret # Panic
        /\ (ret = Err("InvalidZeroScalar")) <=> (scalar = zero)
        /\ scalar # zero =>
              /\ ret.tag = "Ok"
              /\ ret.val \in Scalars
              /\ ScalarMul(ret.val, scalar) = one

C7_Witness == call = "invert" /\ scalar = 3 /\ ret = Ok(5)

\* a byte string is canonical when it is what serialize returns for some
\* scalar, or for some point of the curve
CanonicalScalar(b) == \E v \in Scalars : PallasScalarField_serialize(v) = b

CanonicalElement(b) == \E pt \in CurvePoints : PallasGroup_serialize(pt) = b

\* C8: on every input, the scalar deserialize returns Err(MalformedScalar)
\* for bytes that are not the canonical encoding of a scalar, the group
\* deserialize returns Err(MalformedElement) for bytes that are not the
\* canonical encoding of a point; neither panics, neither returns a value
\* that does not serialize back to the input (no reduction), and
\* deserialize(serialize(deserialize(b))) = deserialize(b) for an accepted b.
C8_DeserializeRejects ==
    /\ call = "scalar_deserialize" =>
          /\ ret # Panic
          /\ ~CanonicalScalar(buf) => ret = Err("MalformedScalar")
          /\ ret.tag = "Ok" =>
                /\ ret.val \in Scalars
                /\ PallasScalarField_serialize(ret.val) = buf
    /\ call = "group_deserialize" =>
          /\ ret # Panic
          /\ ~CanonicalElement(buf) => ret = Err("MalformedElement")
          /\ ret.tag = "Ok" =>
                /\ ret.val \in CurvePoints
                /\ PallasGroup_serialize(ret.val) = buf
    /\ call = "scalar_reserialize" => first.tag = "Ok" /\ ret = first

C8_Witness ==
    /\ call = "scalar_deserialize"
    /\ LEValue(buf, ReprLen) >= ScalarModulus
    /\ ret = Err("MalformedScalar")

\* what random_nonzero has drawn and returned, at every point of its loop
RandomNonzeroSafe ==
    /\ rn_pc = "returned" =>
          /\ rn_ret # zero
          /\ Len(rn_seen) > 0
          /\ rn_ret = rn_seen[Len(rn_seen)]
          /\ \A k \in 1 .. (Len(rn_seen) - 1) : rn_seen[k] = zero
    /\ rn_pc = "loop" => \A k \in 1 .. Len(rn_seen) : rn_seen[k] = zero

\* C9: random_nonzero never returns zero: it returns the first nonzero draw,
\* every draw before it was zero, it is still running only while every draw
\* was zero, and it returns if the source yields a nonzero scalar.
C9_RandomNonzero ==
    /\ []RandomNonzeroSafe
    /\ (rn_pc = "loop" /\ \E k \in 1 .. Len(rn_rng) : rn_rng[k] # zero)
          ~> (rn_pc = "returned")

C9_Witness ==
    /\ rn_pc = "returned"
    /\ Len(rn_seen) = MaxDraws
    /\ rn_seen[1] = zero

\* C1: after keygen_with_dealer(5, 3, rng) succeeds, for every 3 of the 5
\* signers that commit, sign the coordinator's SigningPackage of a fixed
\* message and have their shares aggregated, aggregate returns Ok(signature)
\* and the signature verifies against the group key of the PublicKeyPackage.
C1_SignatureVerifies ==
    (num_signers = 5 /\ threshold = 3 /\ agg_ret # NoRet) =>
        /\ Cardinality(participants) = 3
        /\ agg_ret.tag = "Ok"
        /\ frost_verify(keygen_ret.val.pubkeys.group_public, Message,
                        agg_ret.val)

C1_Witness ==
    /\ num_signers = 5
    /\ threshold = 3
    /\ participants = {2, 4, 5}
    /\ agg_ret.tag = "Ok"

\* C3 as claimed: each SigningNonces value is accepted by sign at most once:
\* no sign returns Ok on nonces that an earlier sign returned Ok on.
C3_NoncesAcceptedOnce == \A i \in participants : ~reused[i]

\* the nonces a sign accepted are the ones the signer holds
NoncesStillHeld ==
    \A i \in participants :
        used_nonces[i] # {} =>
            /\ nonces[i] # <<>>
            /\ nonces[i][1] \in used_nonces[i]

\* a sign after a sign that returned Ok returns the same share
SameShareAgain ==
    \A i \in participants :
        (share_ret[i] # NoRet /\ share_ret[i].tag = "Ok") =>
            share_ret'[i] = share_ret[i]

\* C3 as amended: sign borrows the SigningNonces and keeps no record of
\* their use: the nonces a sign accepted are still held by the signer, and
\* a later sign with the same nonces, package and key package returns Ok
\* with the same share again.
C3_NoncesKeptBySigner == []NoncesStillHeld /\ [][SameShareAgain]_vars

C3_Witness == \E i \in participants : reused[i] /\ share_ret[i].tag = "Ok"

\* what the session's inputs determine, whatever the order of the steps
ExpKeygen ==
    keygen_with_dealer(num_signers, threshold, SeededStream(dealer_seed)).ret

ExpCommit(kg, i) == commit(kg.val.shares[i], SeededStream(signer_seed[i]))

ExpShares(kg, cms, pkg) ==
    Tabulated([i \in participants |->
                  sign(pkg, cms[i].nonces[1], kg.val.shares[i])])

OrderIndependent ==
    keygen_ret.tag = "Ok" =>
        \A kg \in {ExpKeygen} :
        \A cms \in {Tabulated([i \in participants |-> ExpCommit(kg, i)])} :
                /\ key_package = kg.val.shares
                /\ \A i \in participants :
                      nonces[i] # <<>> =>
                          /\ nonces[i] = cms[i].nonces
                          /\ commitments[i] = cms[i].commitments
                /\ signing_package # NoRet =>
                      \A pkg \in {NewSigningPackage(
                                     [i \in participants |-> cms[i].commitments],
                                     Message)} :
                          /\ signing_package = pkg
                          /\ \A shares \in {ExpShares(kg, cms, pkg)} :
                                /\ \A i \in participants :
                                      share_ret[i] # NoRet =>
                                          share_ret[i] = shares[i]
                                /\ agg_ret # NoRet =>
                                      agg_ret = aggregate(pkg,
                                                          CollectedShares(shares),
                                                          kg.val.pubkeys)

OwnState(i) ==
    <<signer_rng[i], nonces[i], commitments[i], share_ret[i], used_nonces[i],
      reused[i]>>

\* a step of a signer changes that signer's state alone
SignerStepIsolated ==
    \A i \in participants :
        OwnState(i)' # OwnState(i) =>
            /\ \A j \in participants \ {i} : OwnState(j)' = OwnState(j)
            /\ signing_package' = signing_package
            /\ key_package' = key_package
            /\ keygen_ret' = keygen_ret

\* C10: signers that commit and sign in parallel get, in every interleaving
\* of their steps, the results their own inputs determine: a step of a
\* signer leaves the SigningPackage and every other signer's KeyPackage and
\* SigningNonces unchanged, and the shares handed to aggregate and the
\* result of aggregate do not depend on the order of the steps.
C10_ParallelSigners == []OrderIndependent /\ [][SignerStepIsolated]_vars

C10_Witness ==
    /\ agg_ret.tag = "Ok"
    /\ \E i \in participants, j \in participants :
          signer_seed[i] # signer_seed[j]
    /\ \A i \in participants : share_ret[i].tag = "Ok"

=============================================================================
